---- MODULE Spec2Model ----
(***************************************************************************)
(* Model of the run -> job-config expansion and job execution pipeline of  *)
(* the SinkIn experiment tracker (backend/routes/runs.py, routes/jobs.py,  *)
(* routes/images.py, routes/assets.py, services/sinkin.py, db/models.py).  *)
(*                                                                         *)
(* The relational store is modelled by four tables (runs, jobs, images,    *)
(* configs) plus the asset table.  Every route handler is an `async def`   *)
(* without any await, so inside one server process a handler runs to       *)
(* completion before the next one starts; the number of server processes   *)
(* sharing the SQLite file is the variable `workers`.  run_job is split at *)
(* its commit points, because the process can stop between them and the    *)
(* committed `running` status is then what the store keeps.                *)
(***************************************************************************)
EXTENDS Integers, Sequences, FiniteSets, TLC

VARIABLES
    runs,      \* table runs:    run id    -> [batch_number]
    jobs,      \* table jobs:    job id    -> Job row
    images,    \* table images:  image id  -> Image row
    configs,   \* table configs: set of Config rows (the id column is never read)
    assets,    \* table assets:  set of asset ids
    clock,     \* value datetime.utcnow() returns
    apiKey,    \* settings.sinkin_api_key is non-empty
    workers,   \* number of server processes sharing the store
    inflight,  \* run_job handlers between two of their commits
    hist,      \* job id -> [started, calls]: executions and generate calls of that row
    xreq,      \* expander specification: the RunCreateRequest
    xout,      \* expander specification: <<applied, create_job_configs(xreq)>>
    issued,    \* batch specification: the largest batch_number create_run handed out
    checked,   \* race specification: run_job handlers past their checks, before the
               \* commit of status running
    polled     \* consumer specification: <<answer>> of the consumer's last
               \* get_next_job call, <<>> before the first

vars == <<runs, jobs, images, configs, assets, clock, apiKey, workers, inflight, hist, xreq, xout,
          issued, checked, polled>>

----------------------------------------------------------------------------
(* Bounds of the model *)

MaxRows == 4          \* rows of the runs, jobs, images and assets tables, image files and
                      \* upscaled artifacts kept at one time
MaxBatch == MaxRows - 1  \* largest batch_number handed out
MaxJobId == MaxRows - 1  \* largest job id handed out
MaxUrls == 1          \* artifact URLs in one generate response
MaxClock == 1         \* largest clock value
MaxListLen == 2       \* longest steps/scale/scheduler list given to the expander
MaxTotalJobs == 10    \* largest total_jobs given to the expander

None == -1            \* Python None in an integer column
NoText == "none"      \* Python None in a text column

----------------------------------------------------------------------------
(* Helpers *)

Max(S) == CHOOSE x \in S : \A y \in S : y <= x

Min2(a, b) == IF a <= b THEN a ELSE b

Max2(a, b) == IF a >= b THEN a ELSE b

Take(s, n) == SubSeq(s, 1, Min2(n, Len(s)))

Restrict(f, S) == [x \in S |-> f[x]]

Extend(f, g) == [x \in (DOMAIN f) \cup (DOMAIN g) |-> IF x \in DOMAIN g THEN g[x] ELSE f[x]]

\* SQLite INTEGER PRIMARY KEY without the AUTOINCREMENT keyword: largest rowid + 1
NextRowId(table) == IF DOMAIN table = {} THEN 1 ELSE Max(DOMAIN table) + 1

----------------------------------------------------------------------------
(* Parameter expander: create_job_configs *)

RECURSIVE Flatten(_)
Flatten(ss) == IF ss = <<>> THEN <<>> ELSE Head(ss) \o Flatten(Tail(ss))

\* a product that runs the loops in the opposite nesting
ProductInnerFirst(a, b, c) ==
    Flatten([k \in 1..Len(c) |->
        Flatten([j \in 1..Len(b) |->
            [i \in 1..Len(a) |-> <<a[i], b[j], c[k]>>]])])

\* itertools.product(steps_list, scale_list, scheduler_list): the tuples of
\* the nested loops `for x in a: for y in b: for z in c`
Product(a, b, c) ==
    Flatten([i \in 1..Len(a) |->
        Flatten([j \in 1..Len(b) |->
            [k \in 1..Len(c) |-> <<a[i], b[j], c[k]>>]])])

\* the dict built in the inner loop body
JobConfig(req, combo) ==
    [steps |-> combo[1], scale |-> combo[2], scheduler |-> combo[3],
     image_strength |-> req.image_strength, controlnet |-> req.controlnet]

\* for _ in range(jobs_per_combo): configs.append(config)
RECURSIVE Replicate(_, _)
Replicate(c, n) == IF n <= 0 THEN <<>> ELSE <<c>> \o Replicate(c, n - 1)

\* for steps, scale, scheduler in combinations: ...
RECURSIVE Candidates(_, _, _)
Candidates(req, combos, k) ==
    IF combos = <<>> THEN <<>>
    ELSE Replicate(JobConfig(req, Head(combos)), k) \o Candidates(req, Tail(combos), k)

\* a replica count without the floor of one
JobsPerComboFloor(total, ncombos) == total \div ncombos

JobsPerCombo(total, ncombos) == Max2(1, total \div ncombos)

create_job_configs(req) ==
    LET combinations == Product(req.steps_list, req.scale_list, req.scheduler_list)
        jobs_per_combo == JobsPerCombo(req.total_jobs, Len(combinations))
    IN  Take(Candidates(req, combinations, jobs_per_combo), req.total_jobs)

\* json.dumps / json.loads on the stored job configuration
json_dumps(c) == <<"json", c>>

json_valid(s) == Len(s) = 2 /\ s[1] = "json"

json_loads(s) == s[2]

----------------------------------------------------------------------------
(* The store and the requests *)

JobStatus == {"queued", "running", "completed", "failed"}

EmptyTable == [x \in {} |-> 0]

JobIdSpace == 1..(MaxJobId + 1)

RunIdSpace == 1..(MaxRows \div 2 + 1)

ImageIdSpace == 1..(MaxRows - 1)

AssetIdSpace == 1..(MaxRows \div 2)

\* RunCreateRequest bodies sent to create_run
RunRequests ==
    [steps_list : {<<20, 30>>}, scale_list : {<<75>>}, scheduler_list : {<<"A">>},
     total_jobs : 1..(MaxRows - 1), init_image_asset_id : {None} \cup AssetIdSpace,
     image_strength : {75}, controlnet : {NoText}]

NoRequest == [total_jobs |-> 0]

\* the non-empty lists of at most MaxListLen values of V, repeated values included
Lists(V) == UNION {[1..n -> V] : n \in 1..MaxListLen}

\* RunCreateRequest bodies given to the expander
ExpandRequests ==
    [steps_list : Lists({20, 30}), scale_list : Lists({50, 75}),
     scheduler_list : Lists({"A", "B"}), total_jobs : 1..MaxTotalJobs,
     init_image_asset_id : {None}, image_strength : {75}, controlnet : {NoText}]

\* the rows the tables hold, the image files downloaded and the artifacts
\* the upscale calls produced
Rows ==
    Cardinality(DOMAIN runs) + Cardinality(DOMAIN jobs) + Cardinality(DOMAIN images)
    + Cardinality(assets)
    + Cardinality({i \in DOMAIN images : images[i].file_path})
    + Cardinality({<<i, u>> \in (DOMAIN images) \X (1..MaxRows) : u <= images[i].upscale_url})

\* uuid4(): an id no row of the table carries; the model takes the smallest,
\* the k-th such id for the k-th of several rows made in one request
RECURSIVE FreshIds(_, _)
FreshIds(used, k) ==
    IF k = 0 THEN <<>>
    ELSE LET id == CHOOSE x \in 1..(Cardinality(used) + 1) : x \notin used
         IN  <<id>> \o FreshIds(used \cup {id}, k - 1)

\* one server process handles one request at a time
Idle == Cardinality(inflight) + Cardinality(checked) < workers

JobsOfRun(r) == {j \in DOMAIN jobs : jobs[j].run_id = r}

ImagesOfRun(r) == {i \in DOMAIN images : images[i].run_id = r}

ConfigsOfImages(I) == {c \in configs : c.image_id \in I}

QueuedJobs == {j \in DOMAIN jobs : jobs[j].status = "queued"}

----------------------------------------------------------------------------
(* Requests that answer without writing to the store leave every variable as *)
(* it is; what they answer is an operator of the state and the request.      *)

NoWrite == UNCHANGED vars

----------------------------------------------------------------------------
(* routes/assets.py *)

upload_asset ==
    /\ Idle
    /\ Rows < MaxRows
    /\ assets' = assets \cup {Cardinality(assets) + 1}
    /\ UNCHANGED <<runs, jobs, images, configs, clock,
                   apiKey, workers, inflight, hist, xreq, xout, issued, checked, polled>>

----------------------------------------------------------------------------
(* routes/runs.py *)

\* a batch number taken from the count of the Runs
get_next_batch_number_count == Cardinality(DOMAIN runs) + 1

\* lines 58-61: (max(batch_number) or 0) + 1
get_next_batch_number ==
    IF DOMAIN runs = {} THEN 1 ELSE Max({runs[r].batch_number : r \in DOMAIN runs}) + 1

\* a create_run that does not look the seed Asset up
create_run_check_unvalidated(req) == 0

\* lines 116-120: the status code create_run answers before it writes, 0 when
\* the request passes the check
create_run_check(req) ==
    IF req.init_image_asset_id # None /\ req.init_image_asset_id \notin assets THEN 400 ELSE 0

\* the Job rows create_run adds for the configurations cfgs: ids follow the
\* table's largest rowid, created_at is read from the clock at each flush; the
\* clock has advanced by d0 since it was last read and advances by d between
\* two flushes
NewJobs(run_id, req, cfgs, d0, d) ==
    LET base == NextRowId(jobs) - 1
    IN  [j \in (base + 1)..(base + Len(cfgs)) |->
            [run_id |-> run_id, status |-> "queued",
             config_json |-> json_dumps(cfgs[j - base]),
             init_image_asset_id |-> req.init_image_asset_id,
             created_at |-> clock + d0 + (j - base - 1) * d,
             completed_at |-> None, error_message |-> NoText]]

create_run_rejected ==
    /\ Idle
    /\ {req \in RunRequests : create_run_check(req) # 0} # {}
    /\ NoWrite

create_run(req, d0, d) ==
    LET run_id == FreshIds(DOMAIN runs \cup {e.run : e \in inflight}, 1)[1]
        job_configs == create_job_configs(req)
        added == NewJobs(run_id, req, job_configs, d0, d)
    IN  /\ Idle
        /\ create_run_check(req) = 0
        /\ Rows + 1 + Len(job_configs) <= MaxRows
        /\ get_next_batch_number <= MaxBatch
        /\ \A j \in DOMAIN added : j <= MaxJobId
        /\ clock + d0 + (Len(job_configs) - 1) * d <= MaxClock
        /\ runs' = Extend(runs, [r \in {run_id} |-> [batch_number |-> get_next_batch_number]])
        /\ jobs' = Extend(jobs, added)
        /\ hist' = Extend(hist, [j \in DOMAIN added |-> [started |-> 0, calls |-> 0]])
        /\ clock' = clock + d0 + (Len(job_configs) - 1) * d
        /\ UNCHANGED <<images, configs, assets, apiKey, workers,
                       inflight, xreq, xout, checked, polled>>

delete_run_check(r) == IF r \in DOMAIN runs THEN 0 ELSE 404

delete_run_rejected ==
    /\ Idle
    /\ {r \in RunIdSpace : delete_run_check(r) # 0} # {}
    /\ NoWrite

\* a delete whose cascade stops at the Images and leaves their Configs
delete_run_keep_configs(r) ==
    /\ Idle
    /\ delete_run_check(r) = 0
    /\ runs' = Restrict(runs, DOMAIN runs \ {r})
    /\ jobs' = Restrict(jobs, DOMAIN jobs \ JobsOfRun(r))
    /\ hist' = Restrict(hist, DOMAIN jobs \ JobsOfRun(r))
    /\ images' = Restrict(images, DOMAIN images \ ImagesOfRun(r))
    /\ UNCHANGED <<configs, assets, clock, apiKey, workers,
                   inflight, xreq, xout, issued, checked, polled>>

\* db.delete(run): the ORM cascades to run.jobs, run.images and each image.config
delete_run(r) ==
    /\ Idle
    /\ delete_run_check(r) = 0
    /\ runs' = Restrict(runs, DOMAIN runs \ {r})
    /\ jobs' = Restrict(jobs, DOMAIN jobs \ JobsOfRun(r))
    /\ hist' = Restrict(hist, DOMAIN jobs \ JobsOfRun(r))
    /\ images' = Restrict(images, DOMAIN images \ ImagesOfRun(r))
    /\ configs' = configs \ ConfigsOfImages(ImagesOfRun(r))
    /\ UNCHANGED <<assets, clock, apiKey, workers,
                   inflight, xreq, xout, issued, checked, polled>>

----------------------------------------------------------------------------
(* routes/jobs.py: run_job *)

\* the checks of run_job without the one on the status
run_job_check_any_status(j) ==
    IF j \notin DOMAIN jobs THEN 404
    ELSE IF jobs[j].run_id \notin DOMAIN runs THEN 404
    ELSE IF ~json_valid(jobs[j].config_json) THEN 400
    ELSE 0

\* the checks of run_job without the lookup of the Run
run_job_check_no_run(j) ==
    IF j \notin DOMAIN jobs THEN 404
    ELSE IF jobs[j].status # "queued" THEN 400
    ELSE IF ~json_valid(jobs[j].config_json) THEN 400
    ELSE 0

\* lines 44-61: the status code run_job answers before it changes anything,
\* 0 when the request passes every check
run_job_check(j) ==
    IF j \notin DOMAIN jobs THEN 404
    ELSE IF jobs[j].status # "queued" THEN 400
    ELSE IF jobs[j].run_id \notin DOMAIN runs THEN 404
    ELSE IF ~json_valid(jobs[j].config_json) THEN 400
    ELSE 0

run_job_rejected ==
    /\ Idle
    /\ {j \in JobIdSpace : run_job_check(j) # 0} # {}
    /\ NoWrite

\* lines 63-73: status running is committed, the seed image is resolved
run_job_start(j) ==
    /\ Idle
    /\ run_job_check(j) = 0
    /\ jobs' = [jobs EXCEPT ![j].status = "running"]
    /\ hist' = [hist EXCEPT ![j].started = @ + 1]
    /\ inflight' = inflight \cup
          {[job |-> j, run |-> jobs[j].run_id, config |-> json_loads(jobs[j].config_json),
            init |-> (jobs[j].init_image_asset_id # None
                      /\ jobs[j].init_image_asset_id \in assets)]}
    /\ UNCHANGED <<runs, images, configs, assets, clock,
                   apiKey, workers, xreq, xout, issued, checked, polled>>

\* lines 44-61 in server process p: the Job is read and passes every check;
\* the SELECT holds no lock once it has returned
run_job_read(p, j) ==
    /\ p \notin {c.proc : c \in checked}
    /\ Idle
    /\ run_job_check(j) = 0
    /\ checked' = checked \cup {[proc |-> p, job |-> j]}
    /\ UNCHANGED <<runs, jobs, images, configs, assets, clock, apiKey, workers,
                   inflight, hist, xreq, xout, issued, polled>>

\* lines 63-73 in the process that read the Job: UPDATE jobs SET status =
\* 'running' WHERE id = ? is committed whatever status the row has by now
run_job_commit(c) ==
    /\ c \in checked
    /\ c.job \in DOMAIN jobs
    /\ jobs' = [jobs EXCEPT ![c.job].status = "running"]
    /\ hist' = [hist EXCEPT ![c.job].started = @ + 1]
    /\ inflight' = inflight \cup
          {[job |-> c.job, run |-> jobs[c.job].run_id,
            config |-> json_loads(jobs[c.job].config_json),
            init |-> (jobs[c.job].init_image_asset_id # None
                      /\ jobs[c.job].init_image_asset_id \in assets),
            proc |-> c.proc]}
    /\ checked' = checked \ {c}
    /\ UNCHANGED <<runs, images, configs, assets, clock,
                   apiKey, workers, xreq, xout, issued, polled>>

\* a failure path that puts the job back in the queue
FailedJobRequeued(row, message) ==
    [row EXCEPT !.status = "queued", !.error_message = message, !.completed_at = clock]

\* the job row as the handler's three failure paths leave it
FailedJob(row, message) ==
    [row EXCEPT !.status = "failed", !.error_message = message, !.completed_at = clock]

\* an execution that retries after every failed call, seed image or not
CallsMadeRetryAlways(e, first_error) == IF first_error THEN 2 ELSE 1

\* the number of generate calls of an execution whose first call errored or not
CallsMade(e, first_error) == IF first_error /\ e.init THEN 2 ELSE 1

\* a credential check that comes after the request was sent
run_job_no_key_after_call(e) ==
    /\ e \in inflight
    /\ e.job \in DOMAIN jobs
    /\ ~apiKey
    /\ jobs' = [jobs EXCEPT ![e.job] =
                   FailedJob(@, "SINKIN_API_KEY not configured. Please add it to .env file.")]
    /\ hist' = [hist EXCEPT ![e.job].calls = @ + 1]
    /\ inflight' = inflight \ {e}
    /\ UNCHANGED <<runs, images, configs, assets, clock,
                   apiKey, workers, xreq, xout, issued, checked, polled>>

\* lines 188-194: _get_api_key raises ValueError before any request is sent
run_job_no_key(e) ==
    /\ e \in inflight
    /\ e.job \in DOMAIN jobs
    /\ ~apiKey
    /\ jobs' = [jobs EXCEPT ![e.job] = FailedJob(@, "SINKIN_API_KEY not configured. Please add it to .env file.")]
    /\ inflight' = inflight \ {e}
    /\ UNCHANGED <<runs, images, configs, assets, clock,
                   apiKey, workers, hist, xreq, xout, issued, checked, polled>>

\* a handler that answers the error without recording it on the Job
run_job_provider_error_unrecorded(e) ==
    /\ e \in inflight
    /\ e.job \in DOMAIN jobs
    /\ apiKey
    /\ hist' = [hist EXCEPT ![e.job].calls = @ + CallsMade(e, TRUE)]
    /\ inflight' = inflight \ {e}
    /\ UNCHANGED <<runs, jobs, images, configs, assets, clock,
                   apiKey, workers, xreq, xout, issued, checked, polled>>

\* lines 96-127: the last generate call made reports an error (a provider
\* error or a transport failure); with a seed image that is the fallback call
run_job_provider_error(e) ==
    /\ e \in inflight
    /\ e.job \in DOMAIN jobs
    /\ apiKey
    /\ jobs' = [jobs EXCEPT ![e.job] =
                   FailedJob(@, IF e.init THEN "message of call 2" ELSE "message of call 1")]
    /\ hist' = [hist EXCEPT ![e.job].calls = @ + CallsMade(e, TRUE)]
    /\ inflight' = inflight \ {e}
    /\ UNCHANGED <<runs, images, configs, assets, clock,
                   apiKey, workers, xreq, xout, issued, checked, polled>>

\* Image rows whose batch_index counts from one
NewImagesFromOne(e, k, downloaded) ==
    LET ids == FreshIds(DOMAIN images, k)
        index(i) == CHOOSE b \in 1..k : ids[b] = i
    IN  [i \in {ids[b] : b \in 1..k} |->
            [run_id |-> e.run, file_path |-> (index(i) - 1) \in downloaded,
             inf_id |-> e.job, batch_index |-> index(i),
             upscale_url |-> None, is_failed |-> FALSE]]

\* Image rows for the artifacts that were downloaded only
NewImagesDownloadedOnly(e, k, downloaded) ==
    LET ids == FreshIds(DOMAIN images, Cardinality(downloaded))
    IN  [i \in {ids[b] : b \in 1..Cardinality(downloaded)} |->
            [run_id |-> e.run, file_path |-> TRUE,
             inf_id |-> e.job, batch_index |-> CHOOSE b \in 1..Cardinality(downloaded) : ids[b] = i,
             upscale_url |-> None, is_failed |-> FALSE]]

\* lines 146-153: the Image rows of the first k artifact URLs of a response
\* (the provider's inference id is written as the id of the job it served);
\* downloaded holds the batch indexes whose download succeeded
NewImages(e, k, downloaded) ==
    LET ids == FreshIds(DOMAIN images, k)
        index(i) == (CHOOSE b \in 1..k : ids[b] = i) - 1
    IN  [i \in {ids[b] : b \in 1..k} |->
            [run_id |-> e.run, file_path |-> index(i) \in downloaded,
             inf_id |-> e.job, batch_index |-> index(i),
             upscale_url |-> None, is_failed |-> FALSE]]

\* services/sinkin.py lines 62-88: the keys of the form the generate call
\* posts; image_strength is added when the call carries the seed image
inference_payload(seeded) ==
    {"access_token", "model_id", "prompt", "width", "height", "steps", "scale",
     "num_images", "seed", "scheduler", "use_default_neg"}
    \cup (IF seeded THEN {"image_strength"} ELSE {})

\* a copy of the payload that keeps every key
payload_for_log_verbatim(payload) == payload

\* services/sinkin.py line 96: the copy inference returns to its caller
payload_for_log(payload) == {k \in payload : k # "access_token"}

\* lines 157-171: the Config rows of the first k of n artifact URLs of a
\* response with credit cost `cost` (a share is the fraction <<cost, n>>, the
\* full cost <<cost, 1>> when the response has no URL);
\* seeded says whether the call that produced them carried the seed image
NewConfigs(e, k, n, cost, seeded) ==
    {[image_id |-> i,
      steps |-> e.config.steps, scale |-> e.config.scale,
      scheduler |-> e.config.scheduler,
      image_strength |-> IF e.init THEN e.config.image_strength ELSE None,
      controlnet |-> e.config.controlnet,
      credit_cost |-> IF n > 0 THEN <<cost, n>> ELSE <<cost, 1>>,
      payload_seeded |-> seeded,
      payload_token |-> "access_token" \in payload_for_log(inference_payload(seeded)),
      urls |-> n]
     : i \in {FreshIds(DOMAIN images, k)[b] : b \in 1..k}}

\* lines 129-186: a generate call succeeded (the first one, or the fallback
\* after a failed img2img call) with n artifact URLs; the store has room for
\* `room` rows and files
run_job_completed_in(room, e, first_error, n, cost, downloaded) ==
    /\ e \in inflight
    /\ e.job \in DOMAIN jobs
    /\ apiKey
    /\ first_error => e.init
    /\ Rows + n + Cardinality(downloaded) <= room
    /\ images' = Extend(images, NewImages(e, n, downloaded))
    /\ configs' = configs \cup NewConfigs(e, n, n, cost, e.init /\ ~first_error)
    /\ jobs' = [jobs EXCEPT ![e.job].status = "completed", ![e.job].completed_at = clock]
    /\ hist' = [hist EXCEPT ![e.job].calls = @ + CallsMade(e, first_error)]
    /\ inflight' = inflight \ {e}
    /\ UNCHANGED <<runs, assets, clock, apiKey, workers, xreq, xout, issued, checked, polled>>

run_job_completed(e, first_error, n, cost, downloaded) ==
    run_job_completed_in(MaxRows, e, first_error, n, cost, downloaded)

\* lines 195-201: an exception other than ValueError is raised in the loop
\* body for artifact k (0-based) of n, after k Configs were added to the
\* session and `flushed` Images were flushed: k of them when the exception
\* comes before the Image of artifact k is added (lines 140-154), k + 1 when
\* it comes while its Config is built (lines 158-171); the handler's commit
\* of the failed status writes them too; the store has room for `room` rows
\* and files
run_job_unexpected_error_in(room, e, first_error, n, k, flushed, cost, downloaded) ==
    /\ e \in inflight
    /\ e.job \in DOMAIN jobs
    /\ apiKey
    /\ first_error => e.init
    /\ k < n
    /\ flushed \in {k, k + 1}
    /\ Rows + flushed + Cardinality(downloaded) <= room
    /\ images' = Extend(images, NewImages(e, flushed, downloaded))
    /\ configs' = configs \cup NewConfigs(e, k, n, cost, e.init /\ ~first_error)
    /\ jobs' = [jobs EXCEPT ![e.job] = FailedJob(@, "unexpected error")]
    /\ hist' = [hist EXCEPT ![e.job].calls = @ + CallsMade(e, first_error)]
    /\ inflight' = inflight \ {e}
    /\ UNCHANGED <<runs, assets, clock, apiKey, workers, xreq, xout, issued, checked, polled>>

run_job_unexpected_error(e, first_error, n, k, cost, downloaded) ==
    run_job_unexpected_error_in(MaxRows, e, first_error, n, k, k, cost, downloaded)

\* the Job row was deleted by another process while the provider was called:
\* the UPDATE of the row by primary key in the final commit matches no row,
\* the flush raises StaleDataError and the transaction is rolled back with the
\* Images and Configs flushed in it; the commit in the except handler fails
\* the same way (lines 119-123, 177-179, 190-200)
run_job_stale(e) ==
    /\ e \in inflight
    /\ e.job \notin DOMAIN jobs
    /\ inflight' = inflight \ {e}
    /\ UNCHANGED <<runs, jobs, images, configs, assets, clock, apiKey,
                   workers, hist, xreq, xout, issued, checked, polled>>

\* the server process stops inside run_job: what it had committed stays
Crash ==
    /\ inflight # {}
    /\ inflight' = {}
    /\ UNCHANGED <<runs, jobs, images, configs, assets, clock, apiKey,
                   workers, hist, xreq, xout, issued, checked, polled>>

----------------------------------------------------------------------------
(* routes/jobs.py: the job store *)

StatusFilters == JobStatus \cup {NoText, "bogus"}

list_jobs_check(status) == IF status # NoText /\ status \notin JobStatus THEN 400 ELSE 0

\* the rows list_jobs selects (lines 211-221); it returns them newest first
list_jobs_rows(status, run_id) ==
    {j \in DOMAIN jobs :
        /\ status # NoText => jobs[j].status = status
        /\ run_id # None => jobs[j].run_id = run_id}

list_jobs ==
    /\ Idle
    /\ NoWrite

\* the same query ordered newest first
next_job_rows_newest ==
    {j \in QueuedJobs : \A k \in QueuedJobs : jobs[j].created_at >= jobs[k].created_at}

\* filter(status == queued).order_by(created_at.asc()).first(): the rows the
\* query can return; among rows of equal created_at the store picks any
next_job_rows ==
    {j \in QueuedJobs : \A k \in QueuedJobs : jobs[j].created_at <= jobs[k].created_at}

\* a queue head that is any queued Job
get_next_job_answers_any == IF QueuedJobs = {} THEN {None} ELSE QueuedJobs

\* what get_next_job can answer: a job id, or None
get_next_job_answers == IF next_job_rows = {} THEN {None} ELSE next_job_rows

get_next_job ==
    /\ Idle
    /\ NoWrite

\* the checks of delete_job without the one on the running status
delete_job_check_unguarded(j) == IF j \notin DOMAIN jobs THEN 404 ELSE 0

\* the checks of delete_job refusing every status but queued
delete_job_check_queued_only(j) ==
    IF j \notin DOMAIN jobs THEN 404
    ELSE IF jobs[j].status # "queued" THEN 400
    ELSE 0

\* lines 264-269: the status code delete_job answers before it deletes, 0
\* when the request passes every check
delete_job_check(j) ==
    IF j \notin DOMAIN jobs THEN 404
    ELSE IF jobs[j].status = "running" THEN 400
    ELSE 0

delete_job_rejected ==
    /\ Idle
    /\ {j \in JobIdSpace : delete_job_check(j) # 0} # {}
    /\ NoWrite

delete_job(j) ==
    /\ Idle
    /\ delete_job_check(j) = 0
    /\ jobs' = Restrict(jobs, DOMAIN jobs \ {j})
    /\ hist' = Restrict(hist, DOMAIN jobs \ {j})
    /\ UNCHANGED <<runs, images, configs, assets, clock,
                   apiKey, workers, inflight, xreq, xout, issued, checked, polled>>

\* a bulk delete that drops the run filter
cancel_all_rows_unscoped(run_id) == {j \in DOMAIN jobs : jobs[j].status = "queued"}

\* the rows the bulk delete of cancel_all_jobs matches (lines 280-282)
cancel_all_rows(run_id) ==
    {j \in DOMAIN jobs :
        /\ jobs[j].status = "queued"
        /\ run_id # None => jobs[j].run_id = run_id}

\* line 284: the count cancel_all_jobs returns, the rows the bulk delete matched
cancel_all_count(run_id) == Cardinality(cancel_all_rows(run_id))

cancel_all_jobs(run_id) ==
    /\ Idle
    /\ jobs' = Restrict(jobs, DOMAIN jobs \ cancel_all_rows(run_id))
    /\ hist' = Restrict(hist, DOMAIN jobs \ cancel_all_rows(run_id))
    /\ UNCHANGED <<runs, images, configs, assets, clock,
                   apiKey, workers, inflight, xreq, xout, issued, checked, polled>>

----------------------------------------------------------------------------
(* routes/images.py *)

ConfigOfImage(i) == {c \in configs : c.image_id = i}

\* lines 177-209: the status code upscale_image answers before it calls the
\* provider, 0 when the request passes every check
upscale_check(i) ==
    IF i \notin DOMAIN images THEN 404
    ELSE IF images[i].inf_id = None THEN 400
    ELSE IF ConfigOfImage(i) = {} THEN 400
    ELSE IF \A c \in ConfigOfImage(i) : c.urls = 0 THEN 400
    ELSE 0

\* lines 211-226, 249-250: the credential is missing, or the provider call
\* reports an error; nothing was assigned yet
upscale_image_rejected ==
    /\ Idle
    /\ NoWrite

\* an upscale that stores the cost of its own call in place of the total
upscale_image_overwrite(i, cost) ==
    /\ Idle
    /\ upscale_check(i) = 0
    /\ apiKey
    /\ Rows < MaxRows
    /\ images' = [images EXCEPT ![i].upscale_url = IF @ = None THEN 1 ELSE @ + 1]
    /\ configs' = (configs \ ConfigOfImage(i)) \cup
                     {[c EXCEPT !.credit_cost = <<cost * @[2], @[2]>>]
                        : c \in ConfigOfImage(i)}
    /\ UNCHANGED <<runs, jobs, assets, clock, apiKey, workers,
                   inflight, hist, xreq, xout, issued, checked, polled>>

\* lines 228-247: the provider answers with an output URL and a credit cost
upscale_image(i, cost) ==
    /\ Idle
    /\ upscale_check(i) = 0
    /\ apiKey
    /\ Rows < MaxRows
    /\ images' = [images EXCEPT ![i].upscale_url = IF @ = None THEN 1 ELSE @ + 1]
    /\ configs' = (configs \ ConfigOfImage(i)) \cup
                     {[c EXCEPT !.credit_cost = <<@[1] + cost * @[2], @[2]>>]
                        : c \in ConfigOfImage(i)}
    /\ UNCHANGED <<runs, jobs, assets, clock, apiKey, workers,
                   inflight, hist, xreq, xout, issued, checked, polled>>

\* lines 262-267: ScoreRequest (schemas.py) declares none of the score_* fields
\* the handler reads, so reading request.score_overall raises AttributeError
\* before any field of the image is assigned
score_image_check(i) == IF i \in DOMAIN images THEN 500 ELSE 404

score_image ==
    /\ Idle
    /\ NoWrite

----------------------------------------------------------------------------
(* The specification of the store and its handlers *)

Init ==
    /\ runs = EmptyTable
    /\ jobs = EmptyTable
    /\ images = EmptyTable
    /\ configs = {}
    /\ hist = EmptyTable
    /\ assets = {}
    /\ clock = 0
    /\ apiKey \in BOOLEAN
    /\ workers = 1
    /\ inflight = {}
    /\ xreq = NoRequest
    /\ xout = <<FALSE, <<>> >>
    /\ issued = 0
    /\ checked = {}
    /\ polled = <<>>

Next ==
    \/ upload_asset
    \/ create_run_rejected
    \/ \E req \in RunRequests, d0 \in {0, 1}, d \in {0, 1} :
          create_run(req, d0, d) /\ UNCHANGED issued
    \/ delete_run_rejected
    \/ \E r \in RunIdSpace : delete_run(r)
    \/ run_job_rejected
    \/ \E j \in JobIdSpace : run_job_start(j)
    \/ \E e \in inflight : run_job_no_key(e)
    \/ \E e \in inflight : run_job_provider_error(e)
    \/ \E e \in inflight, first_error \in BOOLEAN, n \in 0..MaxUrls :
          \E downloaded \in SUBSET (0..(n - 1)) : run_job_completed(e, first_error, n, 1, downloaded)
    \/ \E e \in inflight, first_error \in BOOLEAN, n \in 1..MaxUrls, k \in 0..(MaxUrls - 1) :
          \E downloaded \in SUBSET (0..(k - 1)) :
             run_job_unexpected_error(e, first_error, n, k, 1, downloaded)
    \/ Crash
    \/ list_jobs
    \/ get_next_job
    \/ delete_job_rejected
    \/ \E j \in JobIdSpace : delete_job(j)
    \/ \E r \in {None} \cup RunIdSpace : cancel_all_jobs(r)
    \/ upscale_image_rejected
    \/ \E i \in ImageIdSpace : upscale_image(i, 1)
    \/ score_image

Spec == Init /\ [][Next]_vars

----------------------------------------------------------------------------
(* The specification of two server processes on one store file: a request  *)
(* is handled while a run_job of the other process waits for the provider  *)

InitTwo ==
    /\ runs = EmptyTable
    /\ jobs = EmptyTable
    /\ images = EmptyTable
    /\ configs = {}
    /\ hist = EmptyTable
    /\ assets = {}
    /\ clock = 0
    /\ apiKey \in BOOLEAN
    /\ workers = 2
    /\ inflight = {}
    /\ xreq = NoRequest
    /\ xout = <<FALSE, <<>> >>
    /\ issued = 0
    /\ checked = {}
    /\ polled = <<>>

NextTwo ==
    \/ Next
    \/ \E e \in inflight : run_job_stale(e)

SpecTwo == InitTwo /\ [][NextTwo]_vars

----------------------------------------------------------------------------
(* The specification of the Run table with the batch numbers it handed out *)
(* remembered: create_run and the requests that delete rows                *)

InitBatch ==
    /\ runs = EmptyTable
    /\ jobs = EmptyTable
    /\ images = EmptyTable
    /\ configs = {}
    /\ hist = EmptyTable
    /\ assets = {}
    /\ clock = 0
    /\ apiKey = TRUE
    /\ workers = 1
    /\ inflight = {}
    /\ xreq = NoRequest
    /\ xout = <<FALSE, <<>> >>
    /\ issued = 0
    /\ checked = {}
    /\ polled = <<>>

NextBatch ==
    \/ upload_asset
    \/ create_run_rejected
    \/ \E req \in RunRequests, d0 \in {0, 1}, d \in {0, 1} :
          create_run(req, d0, d) /\ issued' = Max2(issued, get_next_batch_number)
    \/ delete_run_rejected
    \/ \E r \in RunIdSpace : delete_run(r)
    \/ delete_job_rejected
    \/ \E j \in JobIdSpace : delete_job(j)
    \/ \E r \in {None} \cup RunIdSpace : cancel_all_jobs(r)

SpecBatch == InitBatch /\ [][NextBatch]_vars

----------------------------------------------------------------------------
(* The specification of the parameter expander alone: a request is drawn,  *)
(* create_job_configs is applied to it                                      *)

expand ==
    /\ ~xout[1]
    /\ xout' = <<TRUE, create_job_configs(xreq)>>
    /\ UNCHANGED <<runs, jobs, images, configs, assets, clock, apiKey,
                   workers, inflight, hist, xreq, issued, checked, polled>>

InitExpand ==
    /\ runs = EmptyTable
    /\ jobs = EmptyTable
    /\ images = EmptyTable
    /\ configs = {}
    /\ hist = EmptyTable
    /\ assets = {}
    /\ clock = 0
    /\ apiKey = TRUE
    /\ workers = 1
    /\ inflight = {}
    /\ xreq \in ExpandRequests
    /\ xout = <<FALSE, <<>> >>
    /\ issued = 0
    /\ checked = {}
    /\ polled = <<>>

NextExpand == expand

SpecExpand == InitExpand /\ [][NextExpand]_vars

----------------------------------------------------------------------------
(* The specification of run_job on a store file it did not write itself:   *)
(* the SQLite file outlives the process, foreign keys are not enforced     *)
(* (db/database.py sets no PRAGMA) and config_json is a free Text column,  *)
(* so a Job row can name a Run that is gone or hold text that is not JSON  *)

StoredJobRows ==
    [run_id : 1..(MaxJobId - 1), status : {"queued", "completed"},
     config_json : {json_dumps(JobConfig([image_strength |-> 75, controlnet |-> NoText],
                                         <<20, 75, "A">>)),
                    <<"text", "{">>},
     init_image_asset_id : {None}, created_at : {0},
     completed_at : {None, 0}, error_message : {NoText}]

InitStored ==
    /\ runs \in {EmptyTable, [r \in {1} |-> [batch_number |-> 1]]}
    /\ jobs \in UNION {[1..n -> StoredJobRows] : n \in 0..MaxJobId}
    /\ \A j \in DOMAIN jobs : jobs[j].status = "completed" <=> jobs[j].completed_at = 0
    /\ hist = [j \in DOMAIN jobs |->
                  [started |-> IF jobs[j].status = "queued" THEN 0 ELSE 1, calls |-> 0]]
    /\ images = EmptyTable
    /\ configs = {}
    /\ assets = {}
    /\ clock = 0
    /\ apiKey \in BOOLEAN
    /\ workers = 1
    /\ inflight = {}
    /\ xreq = NoRequest
    /\ xout = <<FALSE, <<>> >>
    /\ issued = 0
    /\ checked = {}
    /\ polled = <<>>

NextStored ==
    \/ run_job_rejected
    \/ \E j \in JobIdSpace : run_job_start(j)
    \/ \E e \in inflight : run_job_no_key(e)
    \/ \E e \in inflight : run_job_provider_error(e)

SpecStored == InitStored /\ [][NextStored]_vars

----------------------------------------------------------------------------
(* The specification of the executions of the queued Jobs of one Run with  *)
(* responses of several artifact URLs, each download failing or not       *)

MaxArtifacts == MaxUrls + 1   \* artifact URLs in one generate response

MaxExecutions == MaxRows \div 2   \* queued Jobs of the Run

\* room for the Run, its Jobs and every Image and file of their executions
MaxStore == 1 + MaxExecutions * (1 + 2 * MaxArtifacts)

QueuedJobRow ==
    [run_id |-> 1, status |-> "queued",
     config_json |-> json_dumps(JobConfig([image_strength |-> 75, controlnet |-> NoText],
                                          <<20, 75, "A">>)),
     init_image_asset_id |-> None, created_at |-> 0,
     completed_at |-> None, error_message |-> NoText]

InitDownload ==
    /\ runs = [r \in {1} |-> [batch_number |-> 1]]
    /\ jobs \in {[j \in 1..n |-> QueuedJobRow] : n \in 1..MaxExecutions}
    /\ hist = [j \in DOMAIN jobs |-> [started |-> 0, calls |-> 0]]
    /\ images = EmptyTable
    /\ configs = {}
    /\ assets = {}
    /\ clock = 0
    /\ apiKey = TRUE
    /\ workers = 1
    /\ inflight = {}
    /\ xreq = NoRequest
    /\ xout = <<FALSE, <<>> >>
    /\ issued = 0
    /\ checked = {}
    /\ polled = <<>>

NextDownload ==
    \/ run_job_rejected
    \/ \E j \in JobIdSpace : run_job_start(j)
    \/ \E e \in inflight : run_job_provider_error(e)
    \/ \E e \in inflight, n \in 0..MaxArtifacts :
          \E downloaded \in SUBSET (0..(n - 1)) :
             run_job_completed_in(MaxStore, e, FALSE, n, 1, downloaded)

SpecDownload == InitDownload /\ [][NextDownload]_vars

----------------------------------------------------------------------------
(* The specification of the executions of the queued Jobs of one Run with  *)
(* every way run_job ends: without the credential, on a provider error, on *)
(* a successful response, on an exception raised while the artifacts are   *)
(* persisted                                                               *)

InitExec ==
    /\ runs = [r \in {1} |-> [batch_number |-> 1]]
    /\ jobs \in {[j \in 1..n |-> QueuedJobRow] : n \in 1..MaxExecutions}
    /\ hist = [j \in DOMAIN jobs |-> [started |-> 0, calls |-> 0]]
    /\ images = EmptyTable
    /\ configs = {}
    /\ assets = {}
    /\ clock = 0
    /\ apiKey \in BOOLEAN
    /\ workers = 1
    /\ inflight = {}
    /\ xreq = NoRequest
    /\ xout = <<FALSE, <<>> >>
    /\ issued = 0
    /\ checked = {}
    /\ polled = <<>>

\* lines 75-201: the handler that committed status running goes on to its end
run_job_finish ==
    \/ \E e \in inflight : run_job_no_key(e)
    \/ \E e \in inflight : run_job_provider_error(e)
    \/ \E e \in inflight, n \in 0..MaxArtifacts :
          \E downloaded \in SUBSET (0..(n - 1)) :
             run_job_completed_in(MaxStore, e, FALSE, n, 1, downloaded)
    \/ \E e \in inflight, n \in 1..MaxArtifacts, k \in 0..(MaxArtifacts - 1), flushed \in 0..MaxArtifacts :
          \E downloaded \in SUBSET (0..(flushed - 1)) :
             run_job_unexpected_error_in(MaxStore, e, FALSE, n, k, flushed, 1, downloaded)

NextExec ==
    \/ run_job_rejected
    \/ \E j \in JobIdSpace : run_job_start(j)
    \/ run_job_finish

SpecExec == InitExec /\ [][NextExec]_vars

\* the handler is not stopped and every provider call returns or times out
\* (requests.post has timeout=120, requests.get timeout=30)
FairExec == SpecExec /\ WF_vars(run_job_finish)

----------------------------------------------------------------------------
(* The specification of two server processes that each handle run_job      *)
(* requests on the queued Jobs of one Run, run_job split between its read  *)
(* of the Job and its commit of status running                             *)

InitRace ==
    /\ runs = [r \in {1} |-> [batch_number |-> 1]]
    /\ jobs \in {[j \in 1..n |-> QueuedJobRow] : n \in 1..MaxExecutions}
    /\ hist = [j \in DOMAIN jobs |-> [started |-> 0, calls |-> 0]]
    /\ images = EmptyTable
    /\ configs = {}
    /\ assets = {}
    /\ clock = 0
    /\ apiKey = TRUE
    /\ workers = 2
    /\ inflight = {}
    /\ xreq = NoRequest
    /\ xout = <<FALSE, <<>> >>
    /\ issued = 0
    /\ checked = {}
    /\ polled = <<>>

NextRace ==
    \/ run_job_rejected
    \/ \E p \in 1..workers, j \in JobIdSpace :
          p \notin {e.proc : e \in inflight} /\ run_job_read(p, j)
    \/ \E c \in checked : run_job_commit(c)
    \/ \E e \in inflight : run_job_provider_error(e)
    \/ \E e \in inflight, n \in 0..MaxUrls :
          \E downloaded \in SUBSET (0..(n - 1)) :
             run_job_completed_in(MaxStore, e, FALSE, n, 1, downloaded)

SpecRace == InitRace /\ [][NextRace]_vars

----------------------------------------------------------------------------
(* The specification of a single consumer on a store in which no Run is    *)
(* created any more: it asks get_next_job, calls run_job on the id it got, *)
(* waits for the answer and asks again, until get_next_job answers none    *)

\* Job rows as create_run and earlier executions left them
ConsumerJobRows ==
    [run_id : 1..2, status : {"queued", "completed"},
     config_json : {json_dumps(JobConfig([image_strength |-> 75, controlnet |-> NoText],
                                         <<20, 75, "A">>))},
     init_image_asset_id : {None}, created_at : 0..MaxClock,
     completed_at : {None, MaxClock}, error_message : {NoText}]

InitConsumer ==
    /\ runs = [r \in 1..2 |-> [batch_number |-> r]]
    /\ jobs \in UNION {[1..n -> ConsumerJobRows] : n \in 1..MaxExecutions}
    /\ \A j \in DOMAIN jobs : jobs[j].status = "completed" <=> jobs[j].completed_at # None
    /\ \A j \in DOMAIN jobs, k \in DOMAIN jobs :
          j < k => /\ jobs[j].created_at <= jobs[k].created_at
                   /\ jobs[j].run_id <= jobs[k].run_id
    /\ hist = [j \in DOMAIN jobs |->
                  [started |-> IF jobs[j].status = "queued" THEN 0 ELSE 1, calls |-> 0]]
    /\ images = EmptyTable
    /\ configs = {}
    /\ assets = {}
    /\ clock = MaxClock
    /\ apiKey \in BOOLEAN
    /\ workers = 1
    /\ inflight = {}
    /\ xreq = NoRequest
    /\ xout = <<FALSE, <<>> >>
    /\ issued = 0
    /\ checked = {}
    /\ polled = <<>>

\* the consumer has an answer naming a Job it has not called run_job on
consumer_holds_job ==
    /\ polled # <<>>
    /\ polled[1] \in DOMAIN jobs
    /\ jobs[polled[1]].status = "queued"

\* GET /api/jobs/next by the consumer: it keeps the answer
consumer_poll ==
    /\ Idle
    /\ polled # <<None>>
    /\ ~consumer_holds_job
    /\ polled' \in {<<a>> : a \in get_next_job_answers}
    /\ UNCHANGED <<runs, jobs, images, configs, assets, clock, apiKey, workers,
                   inflight, hist, xreq, xout, issued, checked>>

\* POST /api/jobs/run by the consumer with the id it was given
consumer_run ==
    /\ consumer_holds_job
    /\ run_job_start(polled[1])

NextConsumer ==
    \/ consumer_poll
    \/ consumer_run
    \/ run_job_finish

SpecConsumer == InitConsumer /\ [][NextConsumer]_vars

\* the consumer keeps going and every run_job call returns
FairConsumer == SpecConsumer /\ WF_vars(NextConsumer)

----------------------------------------------------------------------------
(* Properties of the job status lifecycle *)

StatusOf(j) == jobs[j].status

RunScopes == {None} \cup RunIdSpace

\* C1: a step changes the status of a Job that it keeps only along
\* queued -> running, running -> completed or running -> failed
StatusMonotonic ==
    [][\A j \in (DOMAIN jobs) \cap (DOMAIN jobs') :
          jobs'[j].status # jobs[j].status =>
             <<jobs[j].status, jobs'[j].status>> \in
                {<<"queued", "running">>, <<"running", "completed">>,
                 <<"running", "failed">>}]_vars

\* one Job ran to completed and another ran to failed
StatusMonotonicWitness ==
    \E j \in DOMAIN jobs, k \in DOMAIN jobs :
        StatusOf(j) = "completed" /\ StatusOf(k) = "failed"

\* C2: run_job on a Job that is running, completed or failed answers 400; no
\* such request starts an execution, calls the provider or changes the Job,
\* the Images or the Configs; no Job row is executed more than once
NonQueuedRunRejected ==
    /\ [](\A j \in DOMAIN jobs : StatusOf(j) # "queued" => run_job_check(j) = 400)
    /\ [](\A j \in DOMAIN hist : hist[j].started <= 1)
    /\ [][\A j \in DOMAIN jobs : StatusOf(j) # "queued" =>
             /\ ~run_job_start(j)
             /\ run_job_rejected => UNCHANGED <<jobs, images, configs, hist>>]_vars

\* a Job that was executed once and failed after its provider call is
\* rejected by run_job
NonQueuedRunRejectedWitness ==
    \E j \in DOMAIN jobs :
        /\ StatusOf(j) = "failed"
        /\ hist[j].started = 1 /\ hist[j].calls >= 1
        /\ run_job_check(j) = 400

\* C3: delete_job on a running Job answers 400 and removes nothing; delete_job
\* on a queued Job removes it, and then no list_jobs filter and no
\* get_next_job answer holds it and run_job on its id answers 404
DeleteJobGuard ==
    /\ [](\A j \in DOMAIN jobs :
             /\ StatusOf(j) = "running" => delete_job_check(j) = 400
             /\ StatusOf(j) = "queued" => delete_job_check(j) = 0)
    /\ [][\A j \in DOMAIN jobs :
             /\ StatusOf(j) = "running" =>
                   ~delete_job(j) /\ (delete_job_rejected => jobs' = jobs)
             /\ StatusOf(j) = "queued" /\ delete_job(j) =>
                   /\ j \notin DOMAIN jobs'
                   /\ \A s \in StatusFilters, r \in RunScopes : j \notin list_jobs_rows(s, r)'
                   /\ j \notin get_next_job_answers'
                   /\ run_job_check(j)' = 404]_vars

\* a running Job is left as the only Job of a Run that was created with a
\* second one, which is gone
DeleteJobGuardWitness ==
    \E j \in DOMAIN jobs :
        /\ StatusOf(j) = "running" /\ delete_job_check(j) = 400
        /\ j > 1 /\ DOMAIN jobs = {j}
        /\ Cardinality(DOMAIN runs) = 1

\* C4 as stated: delete_job called on a running, completed or failed Job
\* leaves that Job in the store
DeleteJobOnlyQueued ==
    [][\A j \in DOMAIN jobs :
          StatusOf(j) \in {"running", "completed", "failed"} /\ delete_job(j) =>
             j \in DOMAIN jobs']_vars

\* C4 amended: delete_job refuses exactly the running Jobs; called on a
\* queued, completed or failed Job it removes that Job
DeleteJobAllButRunning ==
    /\ [](\A j \in DOMAIN jobs :
             delete_job_check(j) = IF StatusOf(j) = "running" THEN 400 ELSE 0)
    /\ [][\A j \in DOMAIN jobs :
             /\ StatusOf(j) = "running" => ~delete_job(j)
             /\ StatusOf(j) \in {"queued", "completed", "failed"} /\ delete_job(j) =>
                   j \notin DOMAIN jobs']_vars

\* a Run holds Images, which only an executed Job leaves, and no Job any more
DeleteJobAllButRunningWitness ==
    \E r \in DOMAIN runs : ImagesOfRun(r) # {} /\ JobsOfRun(r) = {}

\* C5 as stated: no step removes a Job whose status is running
RunningJobNeverRemoved ==
    [][\A j \in DOMAIN jobs : StatusOf(j) = "running" => j \in DOMAIN jobs']_vars

----------------------------------------------------------------------------
(* Properties of the bulk cancel and of the queue head *)

\* C6: cancel_all_jobs removes exactly the queued Jobs (of the given Run when
\* a run_id is given), the count it returns is the number of Jobs removed,
\* every other Job is kept as it was and no Run, Image or Config changes
CancelAllExact ==
    /\ [](\A r \in RunScopes :
             cancel_all_count(r) =
                Cardinality({j \in DOMAIN jobs :
                    StatusOf(j) = "queued" /\ (r = None \/ jobs[j].run_id = r)}))
    /\ [][\A r \in RunScopes : cancel_all_jobs(r) =>
             /\ (DOMAIN jobs) \ (DOMAIN jobs') =
                   {j \in DOMAIN jobs :
                       StatusOf(j) = "queued" /\ (r = None \/ jobs[j].run_id = r)}
             /\ cancel_all_count(r) = Cardinality((DOMAIN jobs) \ (DOMAIN jobs'))
             /\ (DOMAIN jobs') \subseteq (DOMAIN jobs)
             /\ \A j \in DOMAIN jobs' : jobs'[j] = jobs[j]
             /\ UNCHANGED <<runs, images, configs>>]_vars

\* of two Runs one has lost its Jobs while the Jobs of the other are still
\* queued
CancelAllExactWitness ==
    \E r1 \in DOMAIN runs, r2 \in DOMAIN runs :
        /\ r1 # r2
        /\ JobsOfRun(r1) = {}
        /\ JobsOfRun(r2) # {}
        /\ \A j \in JobsOfRun(r2) : StatusOf(j) = "queued"

\* C7: every answer of get_next_job other than None is a queued Job whose
\* created_at no queued Job of any Run undercuts; the answer is None exactly
\* when no Job is queued; the request changes nothing
NextJobOldest ==
    /\ [](\A a \in get_next_job_answers :
             a # None =>
                /\ a \in DOMAIN jobs
                /\ StatusOf(a) = "queued"
                /\ \A k \in DOMAIN jobs :
                      StatusOf(k) = "queued" => jobs[a].created_at <= jobs[k].created_at)
    /\ []((None \in get_next_job_answers) <=>
             ~(\E j \in DOMAIN jobs : StatusOf(j) = "queued"))
    /\ [](get_next_job_answers # {})
    /\ [][get_next_job => UNCHANGED vars]_vars

\* two queued Jobs of different Runs differ in age and get_next_job answers
\* the older one
NextJobOldestWitness ==
    \E j \in DOMAIN jobs, k \in DOMAIN jobs :
        /\ StatusOf(j) = "queued" /\ StatusOf(k) = "queued"
        /\ jobs[j].run_id # jobs[k].run_id
        /\ jobs[j].created_at < jobs[k].created_at
        /\ get_next_job_answers = {j}

----------------------------------------------------------------------------
(* Properties of the parameter expander *)

Range(s) == {s[i] : i \in DOMAIN s}

\* the number of combinations of the request given to the expander
Combos == Len(xreq.steps_list) * Len(xreq.scale_list) * Len(xreq.scheduler_list)

\* the replicas of one combination: max(1, total_jobs div C)
Replicas == IF xreq.total_jobs \div Combos >= 1 THEN xreq.total_jobs \div Combos ELSE 1

\* C8: create_job_configs returns min(total_jobs, C * max(1, total_jobs div C))
\* configurations, each carrying one of the C combinations of the three lists
ExpandLength ==
    xout[1] =>
       /\ Len(xout[2]) =
             (IF xreq.total_jobs <= Combos * Replicas THEN xreq.total_jobs
              ELSE Combos * Replicas)
       /\ \A i \in 1..Len(xout[2]) :
             /\ xout[2][i].steps \in Range(xreq.steps_list)
             /\ xout[2][i].scale \in Range(xreq.scale_list)
             /\ xout[2][i].scheduler \in Range(xreq.scheduler_list)

\* four combinations and total_jobs = 10 give 8 configurations
ExpandLengthWitness ==
    /\ xout[1]
    /\ Combos = 4 /\ xreq.total_jobs = 10
    /\ Len(xout[2]) = 8

\* the combination at place p (from 0) of the nested-loop walk: steps list
\* slowest, scheduler list fastest
WalkCombo(p) ==
    LET a == xreq.steps_list
        b == xreq.scale_list
        c == xreq.scheduler_list
    IN  [steps |-> a[(p \div (Len(b) * Len(c))) + 1],
         scale |-> b[((p \div Len(c)) % Len(b)) + 1],
         scheduler |-> c[(p % Len(c)) + 1]]

\* the places of the output that carry the combination at place p of the walk
PlacesOf(p) == {i \in 1..Len(xout[2]) : (i - 1) \div Replicas = p}

\* C10: the output is a prefix of the walk that emits each combination
\* max(1, total_jobs div C) times in a row; with total_jobs >= C every
\* combination is emitted total_jobs div C times, with total_jobs < C the
\* first total_jobs combinations once each and the others not at all
ExpandPrefix ==
    xout[1] =>
       /\ Len(xout[2]) <= Combos * Replicas
       /\ \A i \in 1..Len(xout[2]) :
             LET w == WalkCombo((i - 1) \div Replicas)
             IN  /\ xout[2][i].steps = w.steps
                 /\ xout[2][i].scale = w.scale
                 /\ xout[2][i].scheduler = w.scheduler
       /\ xreq.total_jobs >= Combos =>
             \A p \in 0..(Combos - 1) :
                Cardinality(PlacesOf(p)) = xreq.total_jobs \div Combos
       /\ xreq.total_jobs < Combos =>
             \A p \in 0..(Combos - 1) :
                Cardinality(PlacesOf(p)) = IF p < xreq.total_jobs THEN 1 ELSE 0

\* eight distinct combinations and total_jobs = 3: the output is the first
\* three combinations of the walk
ExpandPrefixWitness ==
    /\ xout[1]
    /\ Combos = 8 /\ xreq.total_jobs = 3
    /\ Cardinality(Range(xreq.steps_list)) = 2
    /\ Cardinality(Range(xreq.scale_list)) = 2
    /\ Cardinality(Range(xreq.scheduler_list)) = 2
    /\ Len(xout[2]) = 3

\* C9 as stated: create_run adds exactly total_jobs Jobs for the new Run
CreateRunExactTotal ==
    [][\A req \in RunRequests, d0 \in {0, 1}, d \in {0, 1} :
          create_run(req, d0, d) =>
             Cardinality((DOMAIN jobs') \ (DOMAIN jobs)) = req.total_jobs]_vars

----------------------------------------------------------------------------
(* Properties of one execution of run_job *)

\* the ways run_job can end with a successful response: the call that
\* succeeded, the artifact URLs and the downloads that succeeded
Successes ==
    {x \in [first_error : BOOLEAN, n : 0..MaxUrls, downloaded : SUBSET (0..(MaxUrls - 1))] :
        x.downloaded \subseteq 0..(x.n - 1)}

CostFullyRecorded ==
    [][\A e \in inflight, x \in Successes :
          run_job_completed(e, x.first_error, x.n, 1, x.downloaded) =>
             LET newC == configs' \ configs
             IN  /\ newC # {}
                 /\ \A c \in newC :
                       /\ c.credit_cost = <<1, IF x.n > 0 THEN x.n ELSE 1>>
                       /\ Cardinality(newC) * c.credit_cost[1] = 1 * c.credit_cost[2]]_vars

\* the Job of an execution has a seed image: it names an Asset that exists
Seeded(e) ==
    /\ jobs[e.job].init_image_asset_id # None
    /\ jobs[e.job].init_image_asset_id \in assets

\* the generate calls a step adds to the count of the Job of execution e
CallsAdded(e) == hist'[e.job].calls - hist[e.job].calls

\* C13: an execution makes one generate call, or two when its Job has a seed
\* image and the first call reports an error, the second without the seed
\* image; when the last call made reports an error the Job ends failed with
\* the message of that call and no Image or Config is added
AtMostTwoCalls ==
    /\ [](\A j \in DOMAIN hist : hist[j].calls <= 2)
    /\ [][\A e \in inflight :
             /\ run_job_provider_error(e) =>
                   /\ CallsAdded(e) = IF Seeded(e) THEN 2 ELSE 1
                   /\ jobs'[e.job].status = "failed"
                   /\ jobs'[e.job].error_message =
                         IF Seeded(e) THEN "message of call 2" ELSE "message of call 1"
                   /\ images' = images
                   /\ configs' = configs
             /\ \A x \in Successes :
                   run_job_completed(e, x.first_error, x.n, 1, x.downloaded) =>
                      /\ CallsAdded(e) = IF x.first_error THEN 2 ELSE 1
                      /\ x.first_error => Seeded(e)
                      /\ \A c \in configs' \ configs :
                            c.payload_seeded = (Seeded(e) /\ ~x.first_error)]_vars

\* a Job with a seed image failed after two calls, with the message of the
\* second
AtMostTwoCallsWitness ==
    \E j \in DOMAIN jobs :
        /\ jobs[j].init_image_asset_id \in assets
        /\ StatusOf(j) = "failed" /\ hist[j].calls = 2
        /\ jobs[j].error_message = "message of call 2"
        /\ images = EmptyTable

\* C14 as stated: a Config records an img2img strength or a conditioning
\* mode only when the call that produced its Image carried the seed image
ConfigMatchesCall ==
    \A c \in configs :
        ~c.payload_seeded => c.image_strength = None /\ c.controlnet = NoText

\* run_job on id j must fail validation: no such Job, no Run for it, or a
\* stored configuration that is not JSON
Invalid(j) ==
    \/ j \notin DOMAIN jobs
    \/ jobs[j].run_id \notin DOMAIN runs
    \/ jobs[j].config_json[1] # "json"

\* C15: run_job on a missing Job id, on a Job whose Run is missing or on a
\* Job whose stored configuration is malformed answers 404 or 400; no step
\* starts an execution of such a Job, calls the provider for it or adds an
\* Image or a Config, and the Job, when it exists and is queued, stays queued
ValidationFirst ==
    /\ [](\A j \in JobIdSpace : Invalid(j) => run_job_check(j) \in {400, 404})
    /\ [](\A j \in JobIdSpace : j \notin DOMAIN jobs => run_job_check(j) = 404)
    /\ [][\A j \in JobIdSpace : Invalid(j) =>
             /\ ~run_job_start(j)
             /\ run_job_rejected => UNCHANGED <<jobs, images, configs, hist>>
             /\ j \in DOMAIN jobs =>
                   /\ j \in DOMAIN jobs'
                   /\ jobs'[j].status = jobs[j].status
                   /\ hist'[j] = hist[j]]_vars

\* one queued Job names a Run that is missing, another holds a malformed
\* configuration; neither was executed, while a third Job of the store was
ValidationFirstWitness ==
    \E j \in DOMAIN jobs, k \in DOMAIN jobs :
        /\ StatusOf(j) = "queued" /\ jobs[j].run_id \notin DOMAIN runs
        /\ json_valid(jobs[j].config_json)
        /\ StatusOf(k) = "queued" /\ jobs[k].run_id \in DOMAIN runs
        /\ ~json_valid(jobs[k].config_json)
        /\ run_job_check(j) = 404 /\ run_job_check(k) = 400
        /\ hist[j].started = 0 /\ hist[k].started = 0
        /\ \E m \in DOMAIN jobs : StatusOf(m) = "failed" /\ hist[m].started = 1

\* C16: without the credential no generate call is ever made and no Image or
\* Config ever exists; the step that ends such an execution sends nothing,
\* makes no fallback call, and leaves the Job failed with the configuration
\* message and a completion timestamp
NoKeyFailsFast ==
    /\ [](~apiKey => \A j \in DOMAIN hist : hist[j].calls = 0)
    /\ [](~apiKey => images = EmptyTable /\ configs = {})
    /\ [][\A e \in inflight :
             /\ run_job_no_key(e) =>
                   /\ hist' = hist
                   /\ images' = images /\ configs' = configs
                   /\ jobs'[e.job].status = "failed"
                   /\ jobs'[e.job].error_message =
                         "SINKIN_API_KEY not configured. Please add it to .env file."
                   /\ jobs'[e.job].completed_at # None
             /\ ~apiKey /\ e.job \in DOMAIN jobs' /\ jobs'[e.job].status # "running" =>
                   run_job_no_key(e)]_vars

\* without the credential a Job with a seed image was executed and failed
\* with the configuration message, no call made
NoKeyFailsFastWitness ==
    /\ ~apiKey
    /\ \E j \in DOMAIN jobs :
          /\ jobs[j].init_image_asset_id \in assets
          /\ StatusOf(j) = "failed" /\ hist[j].started = 1 /\ hist[j].calls = 0
          /\ jobs[j].error_message =
                "SINKIN_API_KEY not configured. Please add it to .env file."

----------------------------------------------------------------------------
(* Properties of the Run table *)

\* C17: delete_run on an existing Run removes the Run, its Jobs, its Images
\* and the Configs of those Images and nothing else: every other Run, Job,
\* Image and Config and every Asset is kept as it was; on a missing id it
\* answers 404 and deletes nothing
DeleteRunCascade ==
    [][\A r \in RunIdSpace :
          /\ r \notin DOMAIN runs => delete_run_check(r) = 404 /\ ~delete_run(r)
          /\ delete_run(r) =>
                /\ DOMAIN runs' = (DOMAIN runs) \ {r}
                /\ \A q \in DOMAIN runs' : runs'[q] = runs[q]
                /\ DOMAIN jobs' = {j \in DOMAIN jobs : jobs[j].run_id # r}
                /\ \A j \in DOMAIN jobs' : jobs'[j] = jobs[j]
                /\ DOMAIN images' = {i \in DOMAIN images : images[i].run_id # r}
                /\ \A i \in DOMAIN images' : images'[i] = images[i]
                /\ configs' =
                      {c \in configs :
                          ~(c.image_id \in DOMAIN images /\ images[c.image_id].run_id = r)}
                /\ assets' = assets]_vars

\* the first Run is gone with what it owned, the second Run and its Jobs
\* are in the store
DeleteRunCascadeWitness ==
    \E r \in DOMAIN runs :
        /\ DOMAIN runs = {r}
        /\ runs[r].batch_number = 2
        /\ JobsOfRun(r) # {} /\ JobsOfRun(r) = DOMAIN jobs
        /\ images = EmptyTable /\ configs = {}

\* C18 as stated: every Job and every Image names a Run that exists, every
\* Config names an Image that exists and no Image has two Configs, also when
\* a Run is deleted while one of its Jobs is running
ReferentialIntegrity ==
    /\ \A j \in DOMAIN jobs : jobs[j].run_id \in DOMAIN runs
    /\ \A i \in DOMAIN images : images[i].run_id \in DOMAIN runs
    /\ \A c \in configs : c.image_id \in DOMAIN images
    /\ \A i \in DOMAIN images : Cardinality(ConfigOfImage(i)) <= 1

\* C19: no two Runs of the store have the same batch_number
BatchUnique ==
    \A r1 \in DOMAIN runs, r2 \in DOMAIN runs :
        r1 # r2 => runs[r1].batch_number # runs[r2].batch_number

\* after the first of three Runs was deleted the store holds batch numbers 2
\* and 3
BatchUniqueWitness ==
    \E r1 \in DOMAIN runs, r2 \in DOMAIN runs :
        /\ DOMAIN runs = {r1, r2}
        /\ runs[r1].batch_number = 2
        /\ runs[r2].batch_number = 3

\* C20 as stated: create_run gives the new Run a batch_number greater than
\* every batch_number handed out before, deleted Runs included
BatchNeverReused ==
    [][\A req \in RunRequests, d0 \in {0, 1}, d \in {0, 1} :
          create_run(req, d0, d) =>
             \A r \in (DOMAIN runs') \ (DOMAIN runs) : runs'[r].batch_number > issued]_vars

----------------------------------------------------------------------------
(* Properties of the enqueue *)

\* C21: create_run adds one Run and, in order, one Job per configuration of
\* create_job_configs; every Job added is queued, belongs to the new Run, has
\* no completion timestamp and no error text and carries the seed Asset
\* reference of the request; rows that existed are kept as they were; a
\* request naming an Asset that does not exist answers 400 and no step that
\* adds a Run is a create_run of such a request
EnqueueShape ==
    /\ [](\A req \in RunRequests :
             (req.init_image_asset_id # None /\ req.init_image_asset_id \notin assets)
                => create_run_check(req) = 400)
    /\ [][/\ create_run_rejected => UNCHANGED <<runs, jobs>>
          /\ (DOMAIN runs' # DOMAIN runs /\ DOMAIN runs \subseteq DOMAIN runs') =>
             \A req \in RunRequests, d0 \in {0, 1}, d \in {0, 1} :
                /\ (req.init_image_asset_id # None /\ req.init_image_asset_id \notin assets)
                      => ~create_run(req, d0, d)
                /\ create_run(req, d0, d) =>
                      LET newR == (DOMAIN runs') \ (DOMAIN runs)
                          newJ == (DOMAIN jobs') \ (DOMAIN jobs)
                          cfgs == create_job_configs(req)
                      IN  /\ Cardinality(newR) = 1
                          /\ Cardinality(newJ) = Len(cfgs)
                          /\ \A j \in newJ :
                                /\ jobs'[j].status = "queued"
                                /\ jobs'[j].run_id \in newR
                                /\ jobs'[j].completed_at = None
                                /\ jobs'[j].error_message = NoText
                                /\ jobs'[j].init_image_asset_id = req.init_image_asset_id
                          /\ \A i \in 1..Len(cfgs) :
                                \E j \in newJ :
                                   /\ Cardinality({k \in newJ : k < j}) = i - 1
                                   /\ jobs'[j].config_json = json_dumps(cfgs[i])
                          /\ \A r \in DOMAIN runs : r \in DOMAIN runs' /\ runs'[r] = runs[r]
                          /\ \A j \in DOMAIN jobs : j \in DOMAIN jobs' /\ jobs'[j] = jobs[j]
                          /\ UNCHANGED <<images, configs, assets>>]_vars

\* a Run has two queued Jobs with different configurations that carry the
\* reference of an Asset that exists, while a second Asset id is still unused
EnqueueShapeWitness ==
    \E r \in DOMAIN runs, j \in DOMAIN jobs, k \in DOMAIN jobs :
        /\ JobsOfRun(r) = {j, k} /\ j < k
        /\ StatusOf(j) = "queued" /\ StatusOf(k) = "queued"
        /\ jobs[j].config_json # jobs[k].config_json
        /\ jobs[j].init_image_asset_id \in assets
        /\ jobs[k].init_image_asset_id = jobs[j].init_image_asset_id
        /\ \E a \in AssetIdSpace : a \notin assets

----------------------------------------------------------------------------
(* Properties of the image updates *)

\* the upscale calls that succeeded on Image i
Upscales(i) == IF images[i].upscale_url = None THEN 0 ELSE images[i].upscale_url

\* C22: the credit cost of every Config is the share recorded at generation
\* (cost 1 over the urls of the response) plus the costs of the upscale calls
\* that succeeded on its Image (cost 1 each); a successful upscale adds its
\* cost to the Config of its Image and changes no other Config or Image; an
\* upscale on a missing Image is refused, and a refused upscale or one whose
\* provider call reports an error leaves every upscale URL and cost unchanged
UpscaleAccumulates ==
    /\ [](\A c \in configs :
             /\ c.image_id \in DOMAIN images
             /\ c.credit_cost = <<1 + Upscales(c.image_id) * c.urls, c.urls>>)
    /\ [](\A i \in ImageIdSpace : i \notin DOMAIN images => upscale_check(i) = 404)
    /\ [][/\ upscale_image_rejected => UNCHANGED <<images, configs>>
          /\ \A i \in ImageIdSpace :
                /\ upscale_check(i) # 0 => ~upscale_image(i, 1)
                /\ upscale_image(i, 1) =>
                      /\ \A c \in ConfigOfImage(i) :
                            [c EXCEPT !.credit_cost = <<c.credit_cost[1] + 1 * c.credit_cost[2],
                                                        c.credit_cost[2]>>] \in configs'
                      /\ Cardinality(configs') = Cardinality(configs)
                      /\ configs \ ConfigOfImage(i) \subseteq configs'
                      /\ images'[i].upscale_url # images[i].upscale_url
                      /\ \A k \in DOMAIN images : k # i => images'[k] = images[k]
                      /\ DOMAIN images' = DOMAIN images]_vars

\* an Image was upscaled twice: its Config holds the generation cost plus two
UpscaleAccumulatesWitness ==
    \E i \in DOMAIN images :
        /\ images[i].upscale_url = 2
        /\ \E c \in ConfigOfImage(i) : c.credit_cost = <<3, 1>>

\* C23 as stated: a score request on an Image that exists succeeds
ScoreSucceeds ==
    \A i \in DOMAIN images : score_image_check(i) = 0

----------------------------------------------------------------------------
(* Properties of the artifact downloads *)

\* the responses and download outcomes of the executions with several URLs
Downloads ==
    {x \in [n : 0..MaxArtifacts, downloaded : SUBSET (0..(MaxArtifacts - 1))] :
        x.downloaded \subseteq 0..(x.n - 1)}

\* the Images of the response that produced Image i
ImagesOfResponse(i) == {k \in DOMAIN images : images[k].inf_id = images[i].inf_id}

\* C24: an execution whose response has n artifact URLs, the downloads of any
\* subset of them failing, adds n Images and n Configs, the Images of the
\* failed downloads and no others with an empty storage path, and leaves the
\* Job completed; in every state a response has as many Images as URLs
DownloadFailureKeepsRows ==
    /\ [](\A c \in configs :
             /\ c.image_id \in DOMAIN images
             /\ Cardinality(ImagesOfResponse(c.image_id)) = c.urls
             /\ {images[k].batch_index : k \in ImagesOfResponse(c.image_id)} = 0..(c.urls - 1)
             /\ jobs[images[c.image_id].inf_id].status = "completed")
    /\ [][\A e \in inflight, x \in Downloads :
             run_job_completed_in(MaxStore, e, FALSE, x.n, 1, x.downloaded) =>
                LET newI == (DOMAIN images') \ (DOMAIN images)
                IN  /\ Cardinality(newI) = x.n
                    /\ Cardinality(configs' \ configs) = x.n
                    /\ \A i \in newI : Cardinality({c \in configs' : c.image_id = i}) = 1
                    /\ {images'[i].batch_index : i \in newI} = 0..(x.n - 1)
                    /\ \A i \in newI :
                          images'[i].file_path = (images'[i].batch_index \in x.downloaded)
                    /\ jobs'[e.job].status = "completed"]_vars

\* a completed Job left two Images with their Configs: the download of the
\* first artifact failed, the second one was stored
DownloadFailureKeepsRowsWitness ==
    \E j \in DOMAIN jobs, i \in DOMAIN images, k \in DOMAIN images :
        /\ StatusOf(j) = "completed"
        /\ images[i].inf_id = j /\ images[k].inf_id = j
        /\ images[i].batch_index = 0 /\ ~images[i].file_path
        /\ images[k].batch_index = 1 /\ images[k].file_path
        /\ ConfigOfImage(i) # {} /\ ConfigOfImage(k) # {}

----------------------------------------------------------------------------
(* Properties of the stored payloads *)

\* C25: no Config of the store holds a request payload with the access
\* token, whether its payload is the one of the first generate call or the
\* one of the fallback call
CredentialNotStored ==
    /\ \A c \in configs : ~c.payload_token
    /\ \A seeded \in BOOLEAN : "access_token" \in inference_payload(seeded)

\* a Job with a seed image completed on its fallback call: the Config of its
\* Image holds the payload of the second call
CredentialNotStoredWitness ==
    \E j \in DOMAIN jobs, i \in DOMAIN images :
        /\ jobs[j].init_image_asset_id \in assets
        /\ StatusOf(j) = "completed" /\ hist[j].calls = 2
        /\ images[i].inf_id = j
        /\ \E c \in ConfigOfImage(i) : ~c.payload_seeded /\ ~c.payload_token

----------------------------------------------------------------------------
(* Properties of the transaction boundary of run_job *)

\* C26 as stated: no Image and no Config of the store comes from an
\* execution whose Job is running or failed
StatusCommitsWithArtifacts ==
    /\ \A i \in DOMAIN images : jobs[images[i].inf_id].status \notin {"running", "failed"}
    /\ \A c \in configs :
          c.image_id \in DOMAIN images =>
             jobs[images[c.image_id].inf_id].status \notin {"running", "failed"}

TerminalFields ==
    \A j \in DOMAIN jobs :
        /\ (jobs[j].completed_at # None) <=> (jobs[j].status \in {"completed", "failed"})
        /\ (jobs[j].error_message # NoText) => (jobs[j].status = "failed")
        /\ jobs[j].status \in {"queued", "running"} =>
              jobs[j].completed_at = None /\ jobs[j].error_message = NoText

----------------------------------------------------------------------------
(* Properties of concurrent run_job requests *)

\* C27 as stated: of the run_job requests naming one queued Job at most one
\* moves it to running and calls the provider, and no artifact of a Job is
\* persisted twice
SingleExecution ==
    /\ \A j \in DOMAIN hist : hist[j].started <= 1 /\ hist[j].calls <= 1
    /\ \A i \in DOMAIN images, k \in DOMAIN images :
          (images[i].inf_id = images[k].inf_id
             /\ images[i].batch_index = images[k].batch_index) => i = k

----------------------------------------------------------------------------
(* Properties of the consumer loop *)

\* C29: the consumer calls run_job on a queued Job that no queued Job
\* precedes in created_at and that was not executed before; that call takes
\* exactly this Job out of the queued ones; no Job is executed twice; in the
\* end get_next_job answers none, and then every Job was executed once and is
\* completed or failed
ConsumerDrainsQueue ==
    /\ <>(polled = <<None>>)
    /\ [](\A j \in DOMAIN hist : hist[j].started <= 1)
    /\ [](polled = <<None>> =>
             /\ QueuedJobs = {}
             /\ \A j \in DOMAIN jobs :
                   hist[j].started = 1 /\ jobs[j].status \in {"completed", "failed"})
    /\ [][consumer_run =>
             /\ polled[1] \in get_next_job_answers
             /\ \A k \in QueuedJobs : jobs[polled[1]].created_at <= jobs[k].created_at
             /\ hist[polled[1]].started = 0
             /\ QueuedJobs' = QueuedJobs \ {polled[1]}
             /\ Cardinality(QueuedJobs') = Cardinality(QueuedJobs) - 1]_vars
    /\ [][(\E e \in inflight : e \notin inflight') => QueuedJobs' = QueuedJobs]_vars

\* the consumer was answered none after it executed two Jobs of two Runs,
\* created at different times
ConsumerDrainsQueueWitness ==
    /\ polled = <<None>>
    /\ Cardinality(DOMAIN jobs) = 2
    /\ \A j \in DOMAIN jobs : hist[j].calls = 1
    /\ \E j \in DOMAIN jobs, k \in DOMAIN jobs :
          jobs[j].created_at < jobs[k].created_at /\ jobs[j].run_id # jobs[k].run_id

====
